---- MODULE Spec2Model ----
(***************************************************************************)
(* The rustdoc "trait implementors" fragment trait.impl/core/fmt/          *)
(* trait.Debug.js: an immediately-invoked function that builds the         *)
(* implementors map and either hands it to window.register_implementors    *)
(* or stores it in window.pending_implementors.                            *)
(*                                                                         *)
(* A JavaScript object has an identity; every run of the script builds a   *)
(* new object.  A map object is the record [id, map]: id is the number of  *)
(* the load that built it, map its contents.  An optional value is a       *)
(* sequence of length 0 (undefined) or 1.                                  *)
(***************************************************************************)
EXTENDS Integers, Sequences, FiniteSets, TLC

\* Number of times the script is loaded in one page.
MaxLoads == 7

VARIABLES
    register_implementors,  \* window.register_implementors: the kind of value in the slot
    pending_implementors,   \* window.pending_implementors: <<>> or <<map object>>
    calls,                  \* the arguments of the registrar's invocations, in order
    outcome                 \* per load, the way the script's run ended

vars == <<register_implementors, pending_implementors, calls, outcome>>

\* The values window.register_implementors can hold, by kind: absent, a
\* function that returns, a function that throws, a truthy value that is
\* not callable (an object, a non-empty string, a non-zero number).
SlotValues == {"undefined", "function", "throwing_function", "non_callable"}

\* ToBoolean of the slot, as the if statement applies it.
Truthy(v) == v # "undefined"

\* Whether a call expression on the value invokes anything.
Callable(v) == v \in {"function", "throwing_function"}

\* The literal assigned to var implementors.
implementors ==
    [
mistralrs_core |->
      << <<"impl <a class=\"trait\" href=\"https://doc.rust-lang.org/1.76.0/core/fmt/trait.Debug.html\" title=\"trait core::fmt::Debug\">Debug</a> for <a class=\"struct\" href=\"mistralrs_core/struct.SamplingParams.html\" title=\"struct mistralrs_core::SamplingParams\">SamplingParams</a>">>,
         <<"impl <a class=\"trait\" href=\"https://doc.rust-lang.org/1.76.0/core/fmt/trait.Debug.html\" title=\"trait core::fmt::Debug\">Debug</a> for <a class=\"enum\" href=\"mistralrs_core/enum.StopTokens.html\" title=\"enum mistralrs_core::StopTokens\">StopTokens</a>">>,
         <<"impl <a class=\"trait\" href=\"https://doc.rust-lang.org/1.76.0/core/fmt/trait.Debug.html\" title=\"trait core::fmt::Debug\">Debug</a> for <a class=\"struct\" href=\"mistralrs_core/struct.ChatCompletionResponse.html\" title=\"struct mistralrs_core::ChatCompletionResponse\">ChatCompletionResponse</a>">>,
         <<"impl <a class=\"trait\" href=\"https://doc.rust-lang.org/1.76.0/core/fmt/trait.Debug.html\" title=\"trait core::fmt::Debug\">Debug</a> for <a class=\"struct\" href=\"mistralrs_core/struct.Request.html\" title=\"struct mistralrs_core::Request\">Request</a>">>,
         <<"impl <a class=\"trait\" href=\"https://doc.rust-lang.org/1.76.0/core/fmt/trait.Debug.html\" title=\"trait core::fmt::Debug\">Debug</a> for <a class=\"struct\" href=\"mistralrs_core/struct.ChatCompletionUsage.html\" title=\"struct mistralrs_core::ChatCompletionUsage\">ChatCompletionUsage</a>">> >>,
     mistralrs_lora |->
      << <<"impl <a class=\"trait\" href=\"https://doc.rust-lang.org/1.76.0/core/fmt/trait.Debug.html\" title=\"trait core::fmt::Debug\">Debug</a> for <a class=\"struct\" href=\"mistralrs_lora/struct.QLoraLinear.html\" title=\"struct mistralrs_lora::QLoraLinear\">QLoraLinear</a>">>,
         <<"impl <a class=\"trait\" href=\"https://doc.rust-lang.org/1.76.0/core/fmt/trait.Debug.html\" title=\"trait core::fmt::Debug\">Debug</a> for <a class=\"struct\" href=\"mistralrs_lora/struct.LoraConfig.html\" title=\"struct mistralrs_lora::LoraConfig\">LoraConfig</a>">>,
         <<"impl <a class=\"trait\" href=\"https://doc.rust-lang.org/1.76.0/core/fmt/trait.Debug.html\" title=\"trait core::fmt::Debug\">Debug</a> for <a class=\"struct\" href=\"mistralrs_lora/struct.LoraLinearConfig.html\" title=\"struct mistralrs_lora::LoraLinearConfig\">LoraLinearConfig</a>">>,
         <<"impl <a class=\"trait\" href=\"https://doc.rust-lang.org/1.76.0/core/fmt/trait.Debug.html\" title=\"trait core::fmt::Debug\">Debug</a> for <a class=\"struct\" href=\"mistralrs_lora/struct.Ordering.html\" title=\"struct mistralrs_lora::Ordering\">Ordering</a>">> >>,
     mistralrs_server |->
      << <<"impl <a class=\"trait\" href=\"https://doc.rust-lang.org/1.76.0/core/fmt/trait.Debug.html\" title=\"trait core::fmt::Debug\">Debug</a> for <a class=\"enum\" href=\"mistralrs_server/openai/enum.StopTokens.html\" title=\"enum mistralrs_server::openai::StopTokens\">StopTokens</a>">>,
         <<"impl <a class=\"trait\" href=\"https://doc.rust-lang.org/1.76.0/core/fmt/trait.Debug.html\" title=\"trait core::fmt::Debug\">Debug</a> for <a class=\"struct\" href=\"mistralrs_server/openai/struct.Message.html\" title=\"struct mistralrs_server::openai::Message\">Message</a>">>,
         <<"impl <a class=\"trait\" href=\"https://doc.rust-lang.org/1.76.0/core/fmt/trait.Debug.html\" title=\"trait core::fmt::Debug\">Debug</a> for <a class=\"enum\" href=\"mistralrs_server/enum.ModelSelected.html\" title=\"enum mistralrs_server::ModelSelected\">ModelSelected</a>">>,
         <<"impl <a class=\"trait\" href=\"https://doc.rust-lang.org/1.76.0/core/fmt/trait.Debug.html\" title=\"trait core::fmt::Debug\">Debug</a> for <a class=\"struct\" href=\"mistralrs_server/openai/struct.ChatCompletionRequest.html\" title=\"struct mistralrs_server::openai::ChatCompletionRequest\">ChatCompletionRequest</a>">> >>
    ]

\* The object the n-th run of the script binds to var implementors.
NewMap(n) == [id |-> n, map |-> implementors]

\* Number of runs of the script so far.
Loads == Len(outcome)

Init ==
    /\ register_implementors = "undefined"
    /\ pending_implementors = <<>>
    /\ calls = <<>>
    /\ outcome = <<>>

\* The registrar's invocations that received the map object built by load i.
Delivered(i) == Cardinality({k \in 1..Len(calls) : calls[k].id = i})

\* Variant: the else is lost, the pending slot is written on both paths.
LoadScript_noElse ==
    /\ Loads < MaxLoads
    /\ LET m == NewMap(Loads + 1) IN
       /\ pending_implementors' = <<m>>
       /\ IF Truthy(register_implementors)
          THEN /\ calls' = Append(calls, m)
               /\ outcome' = Append(outcome, "direct")
          ELSE /\ calls' = calls
               /\ outcome' = Append(outcome, "deferred")
    /\ UNCHANGED register_implementors

\* Variant: the test is negated, the call is made when the slot is empty.
LoadScript_inverted ==
    /\ Loads < MaxLoads
    /\ LET m == NewMap(Loads + 1) IN
       IF ~Truthy(register_implementors)
       THEN /\ pending_implementors' = pending_implementors
            /\ calls' = calls
            /\ outcome' = Append(outcome, "threw")
       ELSE /\ pending_implementors' = <<m>>
            /\ calls' = calls
            /\ outcome' = Append(outcome, "deferred")
    /\ UNCHANGED register_implementors

\* Variant: the pending slot is written only while it is empty.
LoadScript_keepFirst ==
    /\ Loads < MaxLoads
    /\ LET m == NewMap(Loads + 1) IN
       IF Truthy(register_implementors)
       THEN /\ pending_implementors' = pending_implementors
            /\ calls' = Append(calls, m)
            /\ outcome' = Append(outcome, "direct")
       ELSE /\ pending_implementors' =
                  IF pending_implementors = <<>> THEN <<m>> ELSE pending_implementors
            /\ calls' = calls
            /\ outcome' = Append(outcome, "deferred")
    /\ UNCHANGED register_implementors

\* Variant: the registrar is named but not invoked.
LoadScript_noCall ==
    /\ Loads < MaxLoads
    /\ LET m == NewMap(Loads + 1) IN
       IF Truthy(register_implementors)
       THEN /\ pending_implementors' = pending_implementors
            /\ calls' = calls
            /\ outcome' = Append(outcome, "direct")
       ELSE /\ pending_implementors' = <<m>>
            /\ calls' = calls
            /\ outcome' = Append(outcome, "deferred")
    /\ UNCHANGED register_implementors

\* Variant: the deferred path stores the map with the first
\* mistralrs_core entry dropped.
LoadScript_edit ==
    /\ Loads < MaxLoads
    /\ LET m == NewMap(Loads + 1) IN
       IF Truthy(register_implementors)
       THEN /\ pending_implementors' = pending_implementors
            /\ calls' = Append(calls, m)
            /\ outcome' = Append(outcome, "direct")
       ELSE /\ pending_implementors' =
                  <<[m EXCEPT !.map.mistralrs_core = Tail(@)]>>
            /\ calls' = calls
            /\ outcome' = Append(outcome, "deferred")
    /\ UNCHANGED register_implementors

\* Variant: the direct path also hands a map found in the pending slot to
\* the registrar and empties the slot.
LoadScript_flush ==
    /\ Loads < MaxLoads
    /\ LET m == NewMap(Loads + 1) IN
       IF Truthy(register_implementors)
       THEN /\ pending_implementors' = <<>>
            /\ calls' = Append(calls, m) \o pending_implementors
            /\ outcome' = Append(outcome, "direct")
       ELSE /\ pending_implementors' = <<m>>
            /\ calls' = calls
            /\ outcome' = Append(outcome, "deferred")
    /\ UNCHANGED register_implementors

\* Variant: the slot is tested with typeof, so that a truthy value that is
\* not callable takes the deferred path.
LoadScript_typeof ==
    /\ Loads < MaxLoads
    /\ LET m == NewMap(Loads + 1) IN
       IF Callable(register_implementors)
       THEN /\ pending_implementors' = pending_implementors
            /\ calls' = Append(calls, m)
            /\ outcome' = Append(outcome,
                  IF register_implementors = "function"
                  THEN "direct" ELSE "threw")
       ELSE /\ pending_implementors' = <<m>>
            /\ calls' = calls
            /\ outcome' = Append(outcome, "deferred")
    /\ UNCHANGED register_implementors

\* One run of the script, to completion.
LoadScript ==
    /\ Loads < MaxLoads
    /\ LET m == NewMap(Loads + 1) IN
       IF Truthy(register_implementors)
       THEN /\ pending_implementors' = pending_implementors
            /\ IF Callable(register_implementors)
               THEN /\ calls' = Append(calls, m)
                    /\ outcome' = Append(outcome,
                          IF register_implementors = "function"
                          THEN "direct" ELSE "threw")
               ELSE /\ calls' = calls
                    /\ outcome' = Append(outcome, "threw")
       ELSE /\ pending_implementors' = <<m>>
            /\ calls' = calls
            /\ outcome' = Append(outcome, "deferred")
    /\ UNCHANGED register_implementors

\* The documentation runtime initialises and installs its registrar.
InstallRegistrar ==
    /\ register_implementors = "undefined"
    /\ register_implementors' = "function"
    /\ UNCHANGED <<pending_implementors, calls, outcome>>

\* The runtime, its registrar installed, reads the pending slot, registers
\* the map it finds there and clears the slot.
ConsumePending ==
    /\ register_implementors = "function"
    /\ pending_implementors # <<>>
    /\ calls' = Append(calls, pending_implementors[1])
    /\ pending_implementors' = <<>>
    /\ UNCHANGED <<register_implementors, outcome>>

\* A script of the page assigns the empty slot a value of any kind.
SetSlot(v) ==
    /\ register_implementors = "undefined"
    /\ Truthy(v)
    /\ register_implementors' = v
    /\ UNCHANGED <<pending_implementors, calls, outcome>>

Next ==
    \/ LoadScript
    \/ InstallRegistrar
    \/ ConsumePending

Spec == Init /\ [][Next]_vars

\* The runtime reads the pending slot once its registrar is initialised.
LiveSpec == Spec /\ WF_vars(ConsumePending)

NextAny ==
    \/ LoadScript
    \/ ConsumePending
    \/ \E v \in SlotValues : SetSlot(v)

SpecAny == Init /\ [][NextAny]_vars

TypeOK ==
    /\ register_implementors \in SlotValues
    /\ Len(pending_implementors) <= 1
    /\ Loads <= MaxLoads

\* A step that is one run of the script.
LoadStep == Len(outcome') = Len(outcome) + 1

\* A step in which the pending map goes to the registrar and the slot is emptied.
ConsumeStep ==
    /\ pending_implementors # <<>>
    /\ pending_implementors' = <<>>
    /\ calls' = Append(calls, pending_implementors[1])
    /\ outcome' = outcome

\* The maps that have left the loader: the pending one and the registered ones.
HandedOff == {pending_implementors[k] : k \in 1..Len(pending_implementors)}
                \cup {calls[k] : k \in 1..Len(calls)}

C2_DeferredWrite ==
    [][(LoadStep /\ ~Truthy(register_implementors))
         => /\ pending_implementors' = <<NewMap(Loads + 1)>>
            /\ calls' = calls]_vars

\* Two deferred loads have run and nothing was registered.
C2_Witness ==
    /\ Loads >= 2
    /\ outcome[Loads] = "deferred"
    /\ pending_implementors = <<NewMap(Loads)>>
    /\ calls = <<>>

C4_LastMapOnly ==
    (register_implementors = "undefined" /\ Loads >= 1)
        => pending_implementors = <<NewMap(Loads)>>

\* Three or more deferred loads in a row.
C4_Witness ==
    /\ register_implementors = "undefined"
    /\ Loads >= 3
    /\ pending_implementors[1].id = Loads

\* C5 as stated: every map built by a load has been handed to the registrar
\* exactly once, or is in the pending slot waiting for its one hand-off.
C5_Original ==
    \A i \in 1..Loads :
        \/ Delivered(i) = 1 /\ pending_implementors # <<NewMap(i)>>
        \/ Delivered(i) = 0 /\ pending_implementors = <<NewMap(i)>>

\* C5, amended: no map is handed to the registrar more than once; a map
\* published directly is handed off exactly once, at publish time; a
\* deferred map followed by another deferred load is overwritten and never
\* handed off; the last deferred map is either still pending or has been
\* handed off exactly once.
C5_HandOff ==
    \A i \in 1..Loads :
        /\ Delivered(i) <= 1
        /\ outcome[i] = "direct" => Delivered(i) = 1
        /\ outcome[i] = "deferred" =>
              IF i < Loads /\ outcome[i + 1] = "deferred"
              THEN Delivered(i) = 0 /\ pending_implementors # <<NewMap(i)>>
              ELSE (Delivered(i) = 1) # (pending_implementors = <<NewMap(i)>>)

\* An overwritten map, a consumed map and a directly registered map.
C5_Witness ==
    /\ Loads >= 3
    /\ outcome[1] = "deferred" /\ outcome[2] = "deferred"
    /\ Delivered(1) = 0 /\ Delivered(2) = 1
    /\ outcome[3] = "direct" /\ Delivered(3) = 1

\* C6 as stated: whatever the registrar slot holds, every load ends in the
\* immediate or in the deferred path.
C6_Original ==
    \A i \in 1..Loads : outcome[i] \in {"direct", "deferred"}

\* C6, amended: a load ends in the deferred path when the slot is empty and
\* in the immediate path when it holds a function that returns; it ends in
\* an exception exactly when the slot holds a truthy value that is not
\* callable (no registrar invocation, no write) or a function that throws.
C6_ErrorOnlyFromSlot ==
    [][LoadStep =>
         /\ register_implementors = "undefined" =>
               outcome'[Loads + 1] = "deferred"
         /\ register_implementors = "function" =>
               outcome'[Loads + 1] = "direct"
         /\ register_implementors \in {"non_callable", "throwing_function"} =>
               outcome'[Loads + 1] = "threw"
         /\ register_implementors = "non_callable" =>
               /\ calls' = calls
               /\ pending_implementors' = pending_implementors]_vars

\* A load has thrown on a non-callable slot after a deferred load.
C6_Witness ==
    /\ register_implementors = "non_callable"
    /\ Loads >= 2
    /\ outcome[1] = "deferred"
    /\ outcome[Loads] = "threw"
    /\ calls = <<>>

\* The state of the map object built by load i.
State(i) == IF Delivered(i) >= 1 THEN "Registered" ELSE "Unregistered"

\* C7: a map is Unregistered or Registered; it starts Unregistered; it
\* becomes Registered at publish time when the registrar is present, or
\* later when the pending slot is consumed, and by no other step; once
\* Registered it stays Registered.
C7_StateMachine ==
    /\ Loads = 0
    /\ [][/\ \A i \in 1..Loads :
                /\ State(i) = "Registered" => State(i)' = "Registered"
                /\ (State(i) = "Unregistered" /\ State(i)' = "Registered")
                      => (ConsumeStep /\ pending_implementors[1].id = i)
                /\ (ConsumeStep /\ pending_implementors[1].id = i)
                      => State(i)' = "Registered"
          /\ LoadStep =>
                State(Loads)' =
                   IF Truthy(register_implementors)
                   THEN "Registered" ELSE "Unregistered"
         ]_vars

\* One map Registered at publish time, one through the pending slot, and
\* one left Unregistered.
C7_Witness ==
    /\ \E i \in 1..Loads : outcome[i] = "direct" /\ State(i) = "Registered"
    /\ \E i \in 1..Loads : outcome[i] = "deferred" /\ State(i) = "Registered"
    /\ \E i \in 1..Loads : State(i) = "Unregistered"

\* C8: a load writes the pending slot only when it finds no registrar, and
\* once a registrar is present the pending slot is eventually empty.
C8_PendingLifecycle ==
    /\ [][(LoadStep /\ pending_implementors' # pending_implementors)
            => ~Truthy(register_implementors)]_vars
    /\ (Truthy(register_implementors) ~> pending_implementors = <<>>)

\* The slot was written by a deferred load and has been emptied since.
C8_Witness ==
    /\ register_implementors = "function"
    /\ pending_implementors = <<>>
    /\ Loads >= 1 /\ outcome[1] = "deferred"
    /\ Delivered(Loads) = 1 /\ outcome[Loads] = "deferred"

\* C9: every map handed off, by either path, is the literal as built: the
\* keys mistralrs_core, mistralrs_lora, mistralrs_server with lists of 5, 4
\* and 4 one-element entries, nothing added, removed, reordered or edited.
C9_MapIntact ==
    \A m \in HandedOff :
        /\ m.map = implementors
        /\ DOMAIN m.map = {"mistralrs_core", "mistralrs_lora", "mistralrs_server"}
        /\ Len(m.map.mistralrs_core) = 5
        /\ Len(m.map.mistralrs_lora) = 4
        /\ Len(m.map.mistralrs_server) = 4
        /\ \A c \in DOMAIN m.map :
              \A k \in 1..Len(m.map[c]) : Len(m.map[c][k]) = 1

\* Maps have been handed off by both paths, one of them still pending.
C9_Witness ==
    /\ pending_implementors # <<>>
    /\ Len(calls) >= 2
    /\ Cardinality(HandedOff) >= 3

\* C10: a load never writes the registrar slot; a load that finds a
\* registrar leaves the pending map in place and does not hand it to the
\* registrar; the pending slot changes only by a deferred load or by the
\* external consumer.
C10_LoaderFrame ==
    [][/\ LoadStep => register_implementors' = register_implementors
       /\ (LoadStep /\ Truthy(register_implementors)
             /\ pending_implementors # <<>>)
            => /\ pending_implementors' = pending_implementors
               /\ \A k \in (Len(calls) + 1)..Len(calls') :
                     calls'[k].id # pending_implementors[1].id
       /\ pending_implementors' # pending_implementors
            => \/ LoadStep /\ ~Truthy(register_implementors)
               \/ ConsumeStep
      ]_vars

\* Two direct loads have passed over a map pending since before the
\* registrar's arrival.
C10_Witness ==
    /\ register_implementors = "function"
    /\ pending_implementors # <<>>
    /\ Delivered(pending_implementors[1].id) = 0
    /\ Loads >= pending_implementors[1].id + 2

====
